---- MODULE Spec2Model ----
(***************************************************************************)
(* Model of merlon's `pack` command (src/src/pack.rs) and of the Rom       *)
(* content identifier (src/src/rom.rs).                                    *)
(*                                                                         *)
(* Spec    : repeated invocations of `pack::run` in one mod directory,     *)
(*           with the same command line and package descriptor, over a     *)
(*           file system that keeps what earlier invocations left behind.  *)
(* SpecRom : `impl Display for Rom` on files of every kind.                *)
(*                                                                         *)
(* File names are sequences of tokens: "." is the dot, every other token   *)
(* is a dot-free, non-empty piece of text ("merlon" is the literal text).  *)
(* A path is a sequence of components, each of them a file name.           *)
(* The output path is taken to lie outside the staging directory           *)
(* <mod>/.merlon/packages/<name>/.                                         *)
(***************************************************************************)
EXTENDS Naturals, Integers, Sequences, FiniteSets, TLC

VARIABLES
    \* ---- pack::run: position and locals
    pc,            \* position inside run(), or "idle" / "done" / "failed"
    runs,          \* number of invocations started so far
    err,           \* the error the invocation returned ("none" while it has none)
    output_name,   \* local `output_name` (pack.rs:20): [some |-> BOOLEAN, name |-> file name]
    output_path,   \* local `output_path` (pack.rs:28)
    warned,        \* the extension warning was printed (pack.rs:39)
    exit,          \* exit status of each external command of this invocation
    npatches,      \* number of patch files git format-patch wrote in this invocation
    \* ---- inputs, fixed for the behaviour
    outArg,        \* args.output: [some |-> BOOLEAN, path |-> path]
    cfgName,       \* config.package.name()
    rootFiles,     \* regular files in the mod directory (mod_dir.path())
    subFiles,      \* regular files at the top of the submodule (mod_dir.submodule_dir())
    baserom,       \* ver/us/baserom.z64 exists in the submodule
    \* ---- file system
    stagingExists, \* <mod>/.merlon/packages/<output_name>/patches exists
    patchesDir,    \* entries of the patches directory
    tarFile,       \* patches.tar.bz2
    encFile,       \* patches.enc
    outFile,       \* the file at output_path
    \* ---- Rom (rom.rs)
    rpc,           \* position inside Display::fmt
    romFile,       \* what is at the Rom's path: [kind, bytes]
    buffer,        \* local `buffer` of read_bytes
    shown          \* what has been written to the formatter

packVars == <<pc, runs, err, output_name, output_path, warned, exit, npatches,
              outArg, cfgName, rootFiles, subFiles, baserom,
              stagingExists, patchesDir, tarFile, encFile, outFile>>
romVars == <<rpc, romFile, buffer, shown>>
vars == <<packVars, romVars>>

\* ---------------------------------------------------------------- bounds
MaxRuns == 2
MaxPatches == 1
MaxBytes == 2

\* ---------------------------------------------------------------- paths
Dot == "."
Merlon == <<"merlon">>

\* index of the last "." of a file name, 0 when it has none
RECURSIVE LastDot(_, _)
LastDot(f, i) == IF i = 0 THEN 0 ELSE IF f[i] = Dot THEN i ELSE LastDot(f, i - 1)

NoName == [some |-> FALSE, name |-> <<>>]
SomeName(n) == [some |-> TRUE, name |-> n]

\* Path::file_name: the last component, unless the path ends in ".." (or is empty)
FileName(p) ==
    IF Len(p) = 0 \/ p[Len(p)] = <<Dot, Dot>> THEN NoName
    ELSE SomeName(p[Len(p)])

\* Path::file_stem: the file name up to its last ".", the whole name when it has no
\* "." or only a leading one
FileStem(p) ==
    LET fn == FileName(p) IN
    IF ~fn.some THEN NoName
    ELSE LET d == LastDot(fn.name, Len(fn.name)) IN
         IF d <= 1 THEN fn ELSE SomeName(SubSeq(fn.name, 1, d - 1))

\* Path::extension: what follows the last ".", none when there is no "." or only a
\* leading one
Extension(p) ==
    LET fn == FileName(p) IN
    IF ~fn.some THEN NoName
    ELSE LET d == LastDot(fn.name, Len(fn.name)) IN
         IF d <= 1 THEN NoName ELSE SomeName(SubSeq(fn.name, d + 1, Len(fn.name)))

\* PathBuf::push of one relative component: an empty or "." component adds no component
Push(p, c) == IF c = <<>> \/ c = <<Dot>> THEN p ELSE Append(p, c)

\* PathBuf::set_extension: does nothing without a file name, else cuts the path
\* after the file stem and appends "." and the extension
SetExtension(p, ext) ==
    LET st == FileStem(p) IN
    IF ~st.some THEN p
    ELSE [p EXCEPT ![Len(p)] = st.name \o <<Dot>> \o ext]

Cwd == << <<"home">>, <<"cwd">> >>

\* pack.rs:20-25
OutputName(arg, name) == IF arg.some THEN FileStem(arg.path) ELSE SomeName(name)

\* pack.rs:28-35
OutputPath(arg, oname) ==
    IF arg.some THEN arg.path ELSE SetExtension(Push(Cwd, oname), Merlon)

\* pack.rs:38
NeedsWarning(p) ==
    LET e == Extension(p) IN (IF e.some THEN e.name ELSE <<>>) # Merlon

\* ---------------------------------------------------------------- inputs
NoArg == [some |-> FALSE, path |-> <<>>]
SomeArg(p) == [some |-> TRUE, path |-> p]

\* --output: absent, out/a.merlon, out/a.txt, out/a (no extension), out/.. (no file name)
OutputArgs ==
    { NoArg,
      SomeArg(<< <<"out">>, <<"a", Dot, "merlon">> >>),
      SomeArg(<< <<"out">>, <<"a", Dot, "txt">> >>),
      SomeArg(<< <<"out">>, <<"a">> >>),
      SomeArg(<< <<"out">>, <<Dot, Dot>> >>) }

\* package names a merlon.toml can hold: validation only warns (package_config.rs:79-83)
PackageNames == { <<>>, <<"a">>, <<"a", Dot, "b">> }

\* the command lines: the package name is read only when --output is absent
Invocations ==
    {<<NoArg, n>> : n \in PackageNames} \cup {<<a, <<"a">> >> : a \in OutputArgs \ {NoArg}}

\* files that may lie in the mod directory and at the top of the submodule
FileUniverse == {"README.md", "notes.txt"}

\* ---------------------------------------------------------------- file contents
Absent == [kind |-> "absent", run |-> 0, members |-> {}, src |-> 0]
Partial(r) == [kind |-> "partial", run |-> r, members |-> {}, src |-> 0]
\* the archive tar writes in invocation r from the directory's entries
Archive(dir, r) == [kind |-> "tar", run |-> r, members |-> dir, src |-> 0]
\* what openssl writes in invocation r from the input file `in`
Cipher(in, r) == [kind |-> "enc", run |-> r, members |-> in.members, src |-> in.run]

Entry(n, i, k, r) == [name |-> n, idx |-> i, kind |-> k, run |-> r]
PatchFiles(n, r) == {Entry("patch", i, "file", r) : i \in 1..n}

\* writing a file replaces the entry of that name
WriteFile(dir, e) == {x \in dir : ~(x.name = e.name /\ x.idx = e.idx)} \cup {e}

\* clear_dir that removes the files and leaves the subdirectories
ClearDirFilesOnly(dir) == dir \ {e \in dir : e.kind # "dir"}

\* pack.rs:135-146
ClearDir(dir) ==
    dir \ ({e \in dir : e.kind = "dir"} \cup {e \in dir : e.kind # "dir"})

\* pack.rs:76-81
AllowList ==
    << "merlon.toml",
       "README.md", "README.txt", "README",
       "LICENSE.md", "LICENSE.txt", "LICENSE",
       "CONTRIBUTING.md", "CONTRIBUTING.txt", "CONTRIBUTING" >>

\* pack.rs:76-86: the loop from index i on; it stops before index `stop` (the copy
\* that fails), stop = 0 when no copy fails
RECURSIVE CopyMetadataFrom(_, _, _, _, _)
CopyMetadataFrom(dir, src, i, stop, r) ==
    IF i > Len(AllowList) \/ i = stop THEN dir
    ELSE CopyMetadataFrom(
            IF AllowList[i] \in src THEN WriteFile(dir, Entry(AllowList[i], 0, "file", r))
            ELSE dir,
            src, i + 1, stop, r)

\* ---------------------------------------------------------------- exit statuses
Commands == {"git", "tar_create", "tar_list", "openssl"}
NotRun == [c \in Commands |-> "notrun"]
Statuses == {"ok", "nonzero", "spawnerr"}

\* the exit status of git format-patch is not looked at
AfterFormatPatchUnchecked(status) == IF status = "spawnerr" THEN "failed" ELSE "bundle"

\* pack.rs:70-73
AfterFormatPatch(status) == IF status = "ok" THEN "bundle" ELSE "failed"
\* the exit status of tar -c is not looked at
AfterTarCreateUnchecked(status) == IF status = "spawnerr" THEN "failed" ELSE "list"

\* pack.rs:99-102
AfterTarCreate(status) == IF status = "ok" THEN "list" ELSE "failed"
\* pack.rs:105-108: only a failure to launch is propagated, the status is dropped
AfterTarList(status) == IF status = "spawnerr" THEN "failed" ELSE "encrypt"
\* the exit status of openssl is not looked at
AfterEncryptUnchecked(status) == IF status = "spawnerr" THEN "failed" ELSE "place"

\* pack.rs:121-124
AfterEncrypt(status) == IF status = "ok" THEN "place" ELSE "failed"

ErrOf(status, msg) ==
    IF status = "ok" THEN "none" ELSE IF status = "spawnerr" THEN "io" ELSE msg

\* ---------------------------------------------------------------- Rom (rom.rs)
ByteValues == {0, 10, 171, 255}
DigestLen == 20
RomPath == "baserom.z64"

RECURSIVE SumBytes(_)
SumBytes(b) == IF b = <<>> THEN 0 ELSE b[1] + SumBytes(Tail(b))

\* rom.rs:31: the digest of the sha1 crate, as some fixed function of the bytes that
\* yields DigestLen bytes
Sha1Digest(bytes) ==
    [i \in 1..DigestLen |-> (SumBytes(bytes) * 31 + Len(bytes) * 17 + i * 7) % 256]

HexDigits == <<"0", "1", "2", "3", "4", "5", "6", "7",
               "8", "9", "a", "b", "c", "d", "e", "f">>

\* rom.rs:34: format!("{:02x}", byte)
ByteHex(b) == <<HexDigits[(b \div 16) + 1], HexDigits[(b % 16) + 1]>>

\* rom.rs:32-35
RECURSIVE HexOf(_)
HexOf(d) == IF d = <<>> THEN <<>> ELSE ByteHex(d[1]) \o HexOf(Tail(d))

\* ---------------------------------------------------------------- pack::run
\* pack.rs:16-18
Start ==
    /\ pc \in {"idle", "done", "failed"}
    /\ runs < MaxRuns
    /\ runs' = runs + 1
    /\ output_name' = NoName
    /\ output_path' = <<>>
    /\ warned' = FALSE
    /\ exit' = NotRun
    /\ npatches' = 0
    /\ \E cfgOk \in BOOLEAN :
          /\ pc' = IF cfgOk THEN "resolve" ELSE "failed"
          /\ err' = IF cfgOk THEN "none" ELSE "config"
    /\ UNCHANGED <<outArg, cfgName, rootFiles, subFiles, baserom,
                   stagingExists, patchesDir, tarFile, encFile, outFile>>

\* pack.rs:20-46, 130-132
Resolve ==
    /\ pc = "resolve"
    /\ LET name == OutputName(outArg, cfgName) IN
       /\ output_name' = name
       /\ IF ~name.some
          THEN /\ pc' = "failed"
               /\ err' = "output filename cannot be empty"
               /\ UNCHANGED <<output_path, warned>>
          ELSE \E cwdOk \in (IF outArg.some THEN {TRUE} ELSE BOOLEAN) :
                  IF cwdOk
                  THEN /\ output_path' = OutputPath(outArg, name.name)
                       /\ warned' = NeedsWarning(output_path')
                       /\ pc' = "clear"
                       /\ err' = "none"
                  ELSE /\ pc' = "failed"
                       /\ err' = "io"
                       /\ UNCHANGED <<output_path, warned>>
    /\ UNCHANGED <<runs, exit, npatches, outArg, cfgName, rootFiles, subFiles, baserom,
                   stagingExists, patchesDir, tarFile, encFile, outFile>>

\* pack.rs:48-50
CreateAndClear ==
    /\ pc = "clear"
    /\ \/ \* create_dir_all fails
          /\ pc' = "failed" /\ err' = "io"
          /\ UNCHANGED <<stagingExists, patchesDir>>
       \/ \* clear_dir fails: on its first entry, or on the last one left
          /\ \E kept \in {patchesDir} \cup {{e} : e \in patchesDir} :
                kept # {} /\ patchesDir' = kept
          /\ stagingExists' = TRUE
          /\ pc' = "failed" /\ err' = "io"
       \/ /\ stagingExists' = TRUE
          /\ patchesDir' = ClearDir(patchesDir)
          /\ pc' = "extract" /\ err' = "none"
    /\ UNCHANGED <<runs, output_name, output_path, warned, exit, npatches,
                   outArg, cfgName, rootFiles, subFiles, baserom,
                   tarFile, encFile, outFile>>

\* pack.rs:52-73
FormatPatch ==
    /\ pc = "extract"
    /\ \/ \* canonicalize fails
          /\ pc' = "failed" /\ err' = "io"
          /\ UNCHANGED <<exit, npatches, patchesDir>>
       \/ \E status \in Statuses, n \in 0..MaxPatches :
             /\ status = "spawnerr" => n = 0
             /\ exit' = [exit EXCEPT !["git"] = status]
             /\ npatches' = n
             /\ patchesDir' = patchesDir \cup PatchFiles(n, runs)
             /\ pc' = AfterFormatPatch(status)
             /\ err' = ErrOf(status, "failed git format-patch")
    /\ UNCHANGED <<runs, output_name, output_path, warned,
                   outArg, cfgName, rootFiles, subFiles, baserom,
                   stagingExists, tarFile, encFile, outFile>>

\* pack.rs:75-86
CopyMetadata ==
    /\ pc = "bundle"
    /\ \E stop \in 0..Len(AllowList) :
          /\ stop # 0 => AllowList[stop] \in subFiles
          /\ patchesDir' = CopyMetadataFrom(patchesDir, subFiles, 1, stop, runs)
          /\ pc' = IF stop = 0 THEN "check" ELSE "failed"
          /\ err' = IF stop = 0 THEN "none" ELSE "io"
    /\ UNCHANGED <<runs, output_name, output_path, warned, exit, npatches,
                   outArg, cfgName, rootFiles, subFiles, baserom,
                   stagingExists, tarFile, encFile, outFile>>

\* pack.rs:88-90
CheckEmpty ==
    /\ pc = "check"
    /\ \/ \* read_dir fails
          /\ pc' = "failed" /\ err' = "io"
       \/ /\ Cardinality(patchesDir) = 0
          /\ pc' = "failed" /\ err' = "no commits"
       \/ /\ Cardinality(patchesDir) # 0
          /\ pc' = "archive" /\ err' = "none"
    /\ UNCHANGED <<runs, output_name, output_path, warned, exit, npatches,
                   outArg, cfgName, rootFiles, subFiles, baserom,
                   stagingExists, patchesDir, tarFile, encFile, outFile>>

\* pack.rs:92-102
TarCreate ==
    /\ pc = "archive"
    /\ \E status \in Statuses :
          /\ exit' = [exit EXCEPT !["tar_create"] = status]
          /\ \/ status = "ok" /\ tarFile' = Archive(patchesDir, runs)
             \/ status = "nonzero" /\ tarFile' \in {tarFile, Partial(runs)}
             \/ status = "spawnerr" /\ tarFile' = tarFile
          /\ pc' = AfterTarCreate(status)
          /\ err' = ErrOf(status, "failed to compress to tar")
    /\ UNCHANGED <<runs, output_name, output_path, warned, npatches,
                   outArg, cfgName, rootFiles, subFiles, baserom,
                   stagingExists, patchesDir, encFile, outFile>>

\* pack.rs:104-108
TarList ==
    /\ pc = "list"
    /\ \E status \in Statuses :
          /\ exit' = [exit EXCEPT !["tar_list"] = status]
          /\ pc' = AfterTarList(status)
          /\ err' = IF pc' = "failed" THEN "io" ELSE "none"
    /\ UNCHANGED <<runs, output_name, output_path, warned, npatches,
                   outArg, cfgName, rootFiles, subFiles, baserom,
                   stagingExists, patchesDir, tarFile, encFile, outFile>>

\* an existing patches.enc is kept instead of being written again
EncWriteKeepExisting(old, in, r) == IF old.kind = "absent" THEN Cipher(in, r) ELSE old

\* what openssl leaves at -out when it exits 0 (pack.rs:118-119)
EncWrite(old, in, r) == Cipher(in, r)

\* pack.rs:110-124
Encrypt ==
    /\ pc = "encrypt"
    /\ \E status \in Statuses :
          /\ (~baserom \/ tarFile.kind = "absent") => status # "ok"
          /\ exit' = [exit EXCEPT !["openssl"] = status]
          /\ \/ status = "ok" /\ encFile' = EncWrite(encFile, tarFile, runs)
             \/ status = "nonzero" /\ encFile' \in {encFile, Partial(runs)}
             \/ status = "spawnerr" /\ encFile' = encFile
          /\ pc' = AfterEncrypt(status)
          /\ err' = ErrOf(status, "failed to encrypt tar")
    /\ UNCHANGED <<runs, output_name, output_path, warned, npatches,
                   outArg, cfgName, rootFiles, subFiles, baserom,
                   stagingExists, patchesDir, tarFile, outFile>>

\* pack.rs:126-129
Place ==
    /\ pc = "place"
    /\ \/ /\ encFile.kind # "absent"
          /\ outFile' = encFile
          /\ pc' = "done" /\ err' = "none"
       \/ \* fs::copy fails: before it opened the target, or part-way
          /\ outFile' \in {outFile, Partial(runs)}
          /\ pc' = "failed" /\ err' = "io"
    /\ UNCHANGED <<runs, output_name, output_path, warned, exit, npatches,
                   outArg, cfgName, rootFiles, subFiles, baserom,
                   stagingExists, patchesDir, tarFile, encFile>>

\* the process has exited: its locals are gone
Exited ==
    /\ pc \in {"done", "failed"}
    /\ pc' = "idle"
    /\ err' = "none"
    /\ output_name' = NoName
    /\ output_path' = <<>>
    /\ warned' = FALSE
    /\ exit' = NotRun
    /\ npatches' = 0

\* between two invocations the user drops a file or a directory into the patches
\* directory
ManualEdit ==
    /\ Exited
    /\ runs < MaxRuns
    /\ stagingExists
    /\ \E e \in {Entry("notes", 0, "file", 0), Entry("backup", 0, "dir", 0)} :
          /\ e \notin patchesDir
          /\ patchesDir' = patchesDir \cup {e}
    /\ UNCHANGED <<runs, outArg, cfgName, rootFiles, subFiles, baserom,
                   stagingExists, tarFile, encFile, outFile>>

\* between two invocations the base ROM is put into the submodule or taken away
BaseromChange ==
    /\ Exited
    /\ runs < MaxRuns
    /\ baserom' = ~baserom
    /\ UNCHANGED <<runs, outArg, cfgName, rootFiles, subFiles,
                   stagingExists, patchesDir, tarFile, encFile, outFile>>

PackInit ==
    /\ pc = "idle"
    /\ runs = 0
    /\ err = "none"
    /\ output_name = NoName
    /\ output_path = <<>>
    /\ warned = FALSE
    /\ exit = NotRun
    /\ npatches = 0
    /\ stagingExists = FALSE
    /\ patchesDir = {}
    /\ tarFile = Absent
    /\ encFile = Absent
    /\ outFile = Absent

RomNone ==
    /\ rpc = "none"
    /\ romFile = [kind |-> "missing", bytes |-> <<>>]
    /\ buffer = <<>>
    /\ shown = <<>>

Init ==
    /\ PackInit
    /\ \E inv \in Invocations : outArg = inv[1] /\ cfgName = inv[2]
    /\ rootFiles \in SUBSET FileUniverse
    /\ subFiles \in SUBSET FileUniverse
    /\ baserom \in BOOLEAN
    /\ RomNone

Next ==
    \/ Start /\ UNCHANGED romVars
    \/ Resolve /\ UNCHANGED romVars
    \/ CreateAndClear /\ UNCHANGED romVars
    \/ FormatPatch /\ UNCHANGED romVars
    \/ CopyMetadata /\ UNCHANGED romVars
    \/ CheckEmpty /\ UNCHANGED romVars
    \/ TarCreate /\ UNCHANGED romVars
    \/ TarList /\ UNCHANGED romVars
    \/ Encrypt /\ UNCHANGED romVars
    \/ Place /\ UNCHANGED romVars
    \/ ManualEdit /\ UNCHANGED romVars
    \/ BaseromChange /\ UNCHANGED romVars

Spec == Init /\ [][Next]_vars

\* ---------------------------------------------------------------- Display for Rom
ByteSeqs == UNION {[1..n -> ByteValues] : n \in 0..MaxBytes}

RomFiles ==
    {[kind |-> k, bytes |-> <<>>] : k \in {"missing", "denied", "directory"}}
        \cup {[kind |-> "file", bytes |-> b] : b \in ByteSeqs}

\* rom.rs:48
RomFmtPath ==
    /\ rpc = "fmt"
    /\ shown' = <<RomPath>>
    /\ rpc' = "open"
    /\ UNCHANGED <<romFile, buffer>>

\* rom.rs:18-20, 23: File::open; its error goes up through read_bytes and
\* sha1_string to the `if let Ok` of fmt (rom.rs:49), which skips the digest
RomOpen ==
    /\ rpc = "open"
    /\ rpc' = IF romFile.kind \in {"missing", "denied"} THEN "done" ELSE "read"
    /\ UNCHANGED <<romFile, buffer, shown>>

\* rom.rs:24-26: read_to_end(..).unwrap()
RomRead ==
    /\ rpc = "read"
    /\ IF romFile.kind = "file"
       THEN buffer' = romFile.bytes /\ rpc' = "hash"
       ELSE buffer' = buffer /\ rpc' = "panicked"
    /\ UNCHANGED <<romFile, shown>>

\* rom.rs:30-36, 49-52
RomSha1 ==
    /\ rpc = "hash"
    /\ shown' = shown \o <<" (SHA1: ">> \o HexOf(Sha1Digest(buffer)) \o <<")">>
    /\ rpc' = "done"
    /\ UNCHANGED <<romFile, buffer>>

InitRom ==
    /\ PackInit
    /\ outArg = NoArg
    /\ cfgName = <<"a">>
    /\ rootFiles = {}
    /\ subFiles = {}
    /\ baserom = TRUE
    /\ rpc = "fmt"
    /\ romFile \in RomFiles
    /\ buffer = <<>>
    /\ shown = <<>>

NextRom ==
    \/ RomFmtPath /\ UNCHANGED packVars
    \/ RomOpen /\ UNCHANGED packVars
    \/ RomRead /\ UNCHANGED packVars
    \/ RomSha1 /\ UNCHANGED packVars

SpecRom == InitRom /\ [][NextRom]_vars

\* ================================================================ claims
AllowSet == {AllowList[i] : i \in 1..Len(AllowList)}
CheckedCommands == {"git", "tar_create", "openssl"}

\* the invocation got past the Bundler (pack.rs:75-86)
PastBundler ==
    \/ pc \in {"check", "archive", "list", "encrypt", "place", "done"}
    \/ pc = "failed" /\ (err = "no commits" \/ exit["tar_create"] # "notrun")

\* the output file was written by the current invocation
WrittenThisRun == pc # "idle" /\ outFile.kind # "absent" /\ outFile.run = runs

\* the metadata entries this invocation copies
MetadataFiles(src, r) == {Entry(f, 0, "file", r) : f \in AllowSet \cap src}

\* stage of a position: 1 Extractor, 2 Bundler, 3 Archiver, 4 Encryptor, 5 Placer
StageOf(p) ==
    CASE p \in {"clear", "extract"} -> 1
      [] p \in {"bundle", "check"} -> 2
      [] p \in {"archive", "list"} -> 3
      [] p = "encrypt" -> 4
      [] p = "place" -> 5
      [] OTHER -> 0

\* C1 (as claimed): when git format-patch succeeds and writes no patch file, the
\* invocation never gets past the emptiness check: it fails with "no commits" (or
\* with an I/O error before the check) and writes nothing to the output path.
\* Stated for a non-empty package name, where the divergence of C5 plays no part.
C1_EmptyHistoryRejected ==
    (cfgName # <<>> /\ exit["git"] = "ok" /\ npatches = 0) =>
        /\ pc \in {"bundle", "check", "failed"}
        /\ pc = "failed" => err \in {"no commits", "io"}
        /\ ~WrittenThisRun

C3_StageOrder ==
    [][LET s == StageOf(pc)
           t == StageOf(pc')
       IN  (t # 0 /\ t # s) =>
              /\ t = s + 1
              /\ runs' = runs
              /\ s = 0 => pc = "resolve"
              /\ err' = "none"
              /\ s = 1 => exit'["git"] = "ok"
              /\ s = 2 => patchesDir' # {}
              /\ s = 3 => exit'["tar_create"] = "ok" /\ exit'["tar_list"] # "spawnerr"
              /\ s = 4 => exit'["openssl"] = "ok"
              /\ t < 3 => exit'["tar_create"] = "notrun"
              /\ t < 4 => exit'["openssl"] = "notrun"
              /\ t < 5 => ~WrittenThisRun']_vars

\* C3 witness: the Placer has been reached.
C3_Witness == pc = "place" /\ \A c \in CheckedCommands : exit[c] = "ok"

\* C4 (as claimed): a non-zero exit of any of the four commands ends the invocation
\* in an error. Stated for a non-empty package name, where the divergence of C5
\* plays no part.
C4_AllExitsChecked ==
    cfgName # <<>> => \A c \in Commands : exit[c] = "nonzero" => pc = "failed"

\* C4 (amended): a non-zero exit of git format-patch, tar -c or openssl ends the
\* invocation in that command's error and no later command runs; a non-zero exit of
\* tar -t is ignored (the invocation goes on to openssl), only a failure to launch
\* it is fatal.
C4_CheckedExits ==
    /\ exit["git"] = "nonzero" =>
          /\ pc = "failed" /\ err = "failed git format-patch"
          /\ \A c \in Commands \ {"git"} : exit[c] = "notrun"
    /\ exit["tar_create"] = "nonzero" =>
          /\ pc = "failed" /\ err = "failed to compress to tar"
          /\ exit["tar_list"] = "notrun" /\ exit["openssl"] = "notrun"
    /\ exit["openssl"] = "nonzero" => pc = "failed" /\ err = "failed to encrypt tar"
    /\ (\E c \in Commands : exit[c] = "spawnerr") => pc = "failed" /\ err = "io"
    /\ exit["tar_list"] = "spawnerr" => exit["openssl"] = "notrun"
    /\ exit["tar_list"] = "nonzero" => pc = "encrypt" \/ exit["openssl"] # "notrun"

\* C4 witness: tar -t exited non-zero, the invocation went on, and openssl's
\* non-zero exit ended it.
C4_Witness ==
    exit["tar_list"] = "nonzero" /\ exit["openssl"] = "nonzero" /\ pc = "failed"

\* C5 (as claimed): once the logical name has been computed and is empty (no file
\* stem in --output, or an empty package name without --output), the invocation has
\* failed with "output filename cannot be empty" (or, without --output, because the
\* current directory could not be read) and nothing has been created.
C5_EmptyNameRejected ==
    LET stem == FileStem(outArg.path)
        empty == IF outArg.some THEN ~stem.some \/ stem.name = <<>> ELSE cfgName = <<>>
    IN  (empty /\ pc \notin {"idle", "resolve"} /\ err # "config") =>
            /\ pc = "failed" /\ err \in {"output filename cannot be empty", "io"}
            /\ ~stagingExists
            /\ tarFile = Absent /\ encFile = Absent /\ outFile = Absent

\* C6 (as claimed): with --output of an extension other than "merlon" a successful
\* invocation has warned and placed the artifact at that very path; without --output
\* the output path is <cwd>/<name>.merlon. Stated for a non-empty package name,
\* where the divergence of C5 plays no part.
C6_WarningAndDefaultPath ==
  cfgName # <<>> =>
    /\ (pc = "done" /\ outArg.some /\ Extension(outArg.path) # SomeName(Merlon)) =>
          /\ warned
          /\ output_path = outArg.path
          /\ outFile = encFile /\ WrittenThisRun
    /\ (~outArg.some /\ pc \notin {"idle", "resolve", "failed"}) =>
          output_path = Append(Cwd, cfgName \o <<Dot>> \o Merlon)

\* C7 (as claimed): after the Bundler a name is a metadata file of the bundle
\* directory exactly when it is on the allow-list and exists in the project root.
C7_AllowListFromRoot ==
    (cfgName # <<>> /\ PastBundler) =>
        \A f \in AllowSet \cup FileUniverse :
            (\E e \in patchesDir : e.name = f) <=> (f \in AllowSet /\ f \in rootFiles)

\* C8: once an invocation is past the Bundler the patches directory holds exactly
\* the patch files git wrote in this invocation and the metadata files copied in
\* this invocation, and nothing from before.
C8_BundleRecreated ==
    PastBundler =>
        patchesDir = PatchFiles(npatches, runs) \cup MetadataFiles(subFiles, runs)

\* C8 witness: a later invocation is past the Bundler while the archive of an
\* earlier one, which had entries, still lies in the staging directory.
C8_Witness ==
    /\ pc = "archive" /\ npatches > 0
    /\ tarFile.kind = "tar" /\ tarFile.run < runs /\ tarFile.members # {}

\* C9 (as claimed): formatting a Rom never aborts; it ends with the path and the
\* lowercase hex digest when the file could be read, with the path alone otherwise.
C9_DisplayNeverFails ==
    /\ rpc # "panicked"
    /\ rpc = "done" =>
          shown = IF romFile.kind = "file"
                  THEN <<RomPath, " (SHA1: ">> \o HexOf(Sha1Digest(romFile.bytes)) \o <<")">>
                  ELSE <<RomPath>>

\* C10: the file a successful invocation copies to the output path is the
\* encryption made in this invocation of the archive made in this invocation from
\* the bundle directory of this invocation, whatever earlier invocations left.
C10_FreshArtifact ==
    /\ pc = "place" => encFile = Cipher(Archive(patchesDir, runs), runs)
    /\ pc = "done" =>
          /\ outFile = Cipher(Archive(patchesDir, runs), runs)
          /\ \A e \in outFile.members : e.run = runs

\* C10 witness: the Placer is about to copy this invocation's encrypted file while
\* the artifact of an earlier invocation (whose archive and encrypted file were in
\* the staging directory when this one began) still lies at the output path.
C10_Witness ==
    /\ pc = "place" /\ encFile.run = runs
    /\ outFile.kind = "enc" /\ outFile.run < runs

====
